---- MODULE Spec2Model ----
(***************************************************************************)
(* The Instagram auto-reply bot (polling path), its dedup store            *)
(* (RespondedUsers), its rule engine (determineResponse) and the webhook   *)
(* server, as state machines.                                              *)
(***************************************************************************)
EXTENDS Integers, Sequences, FiniteSets, TLC

(***************************************************************************)
(* Bounds of the model.                                                    *)
(***************************************************************************)
MaxUser == 2
MaxConvs == 2
MaxItems == 2
MaxPending == 1
MaxTime == 2
MaxLen == 2

\* bot.insta.Account.ID: the bot's own account
AccountID == 0

UserIDs == 1..MaxUser

Senders == UserIDs \cup {AccountID}

(***************************************************************************)
(* Strings are sequences of characters.                                    *)
(***************************************************************************)
Chars == {"a", "b", "A"}

\* strings.ToLower, character by character
LowerChar(c) == IF c = "A" THEN "a" ELSE c

ToLower(s) == [i \in 1..Len(s) |-> LowerChar(s[i])]

\* strings.Contains
Contains(s, sub) ==
    \E i \in 0..(Len(s) - Len(sub)) : SubSeq(s, i + 1, i + Len(sub)) = sub

Strings(n) == UNION {[1..k -> Chars] : k \in 0..n}

(***************************************************************************)
(* Configuration: ResponseRules is a Go map (keyword -> reply). Order is   *)
(* the order of the rules in config.json, which the map does not keep.     *)
(***************************************************************************)
Replies == {"ra", "rb"}

DefaultReply == "dflt"

\* the configuration the bot runs with in the polling specification
BotConfig ==
    [ResponseRules |-> (<<"a">> :> "ra") @@ (<<"b">> :> "rb"),
     DefaultResponse |-> DefaultReply,
     Order |-> <<(<<"a">>), (<<"b">>)>>]

\* every order in which a range over the keys of a Go map may visit them
RangeOrders(keys) ==
    {o \in [1..Cardinality(keys) -> keys] :
        \A i, j \in 1..Cardinality(keys) : i # j => o[i] # o[j]}

RECURSIVE FirstMatch(_, _, _, _)
\* the loop of determineResponse over one visiting order
FirstMatch(cfg, order, i, messageText) ==
    IF i > Len(order) THEN cfg.DefaultResponse
    ELSE IF Contains(messageText, order[i]) THEN cfg.ResponseRules[order[i]]
    ELSE FirstMatch(cfg, order, i + 1, messageText)

\* the replies determineResponse may return for a text
determineResponse(cfg, messageText) ==
    {FirstMatch(cfg, o, 1, messageText) : o \in RangeOrders(DOMAIN cfg.ResponseRules)}

(***************************************************************************)
(* The dedup store: RespondedUsers.Users, map[int64]time.Time.             *)
(* A time.Time is its wall clock reading and whether it carries a          *)
(* monotonic reading (time.Now() does, a time read from JSON does not).    *)
(***************************************************************************)
\* a nil *RespondedUsers
NilStore == [isNil |-> TRUE, Users |-> << >>]

\* make(map[int64]time.Time)
EmptyUsers == << >>

TimeNow(t) == [wall |-> t, mono |-> TRUE]

HasResponded(U, userID) == userID \in DOMAIN U

\* a mark that stamps every entry of the map
MarkEveryUser(U, userID, t) == [x \in DOMAIN U \cup {userID} |-> TimeNow(t)]

MarkResponded(U, userID, t) ==
    [x \in DOMAIN U \cup {userID} |-> IF x = userID THEN TimeNow(t) ELSE U[x]]

\* json.MarshalIndent(ru.Users): the wall clock reading of every entry
MarshalUsers(U) == [kind |-> "json", users |-> [x \in DOMAIN U |-> U[x].wall]]

\* json.Unmarshal into map[int64]time.Time
UnmarshalUsers(f) == [x \in DOMAIN f.users |-> [wall |-> f.users[x], mono |-> FALSE]]

FileMissing == [kind |-> "missing"]

FileMalformed == [kind |-> "malformed"]

\* the files a start of the process may find
StartFiles ==
    {FileMissing, FileMalformed}
    \cup {[kind |-> "json", users |-> [x \in S |-> 0]] : S \in SUBSET UserIDs}

\* a load that never assigns what it read to ru.Users
LoadKeepsEmptyMap(f) ==
    IF f.kind \in {"missing", "json"} THEN [isNil |-> FALSE, Users |-> EmptyUsers]
    ELSE NilStore

\* NewRespondedUsers, as NewInstagramBot keeps its result
NewRespondedUsers(f) ==
    IF f.kind = "missing" THEN [isNil |-> FALSE, Users |-> EmptyUsers]
    ELSE IF f.kind = "json" THEN [isNil |-> FALSE, Users |-> UnmarshalUsers(f)]
    ELSE NilStore

(***************************************************************************)
(* Conversations of the inbox (goinsta.Conversation, read-only view).      *)
(***************************************************************************)
\* the text a sender writes
TextOf(s) == IF s = AccountID THEN <<"a">> ELSE IF s = 1 THEN <<"A", "b">> ELSE << >>

InboxItem(s) == [UserID |-> s, Text |-> TextOf(s)]

ItemSeqs(n) == UNION {[1..k -> {InboxItem(s) : s \in Senders}] : k \in 0..n}

\* the lists of at most n threads a Sync may return: thread i has ID i
Snapshots(n) ==
    UNION {{[i \in 1..k |-> [ID |-> i, Items |-> its[i]]] : its \in [1..k -> ItemSeqs(MaxItems)]}
           : k \in 0..n}

\* the threads of the pending inbox a SyncPending may return: first-contact
\* requests, which hold messages of other accounts only
PendingItemSeqs == {its \in ItemSeqs(MaxItems) : Len(its) = 1 /\ its[1].UserID # AccountID}

PendingSnapshots(n) ==
    UNION {{[i \in 1..k |-> [ID |-> MaxConvs + i, Items |-> its[i]]] : its \in [1..k -> PendingItemSeqs]}
           : k \in 0..n}

VARIABLES
    pc,        \* where the bot's goroutine is
    inbox,     \* bot.insta.Inbox: Conversations and Pending
    pending,   \* checkMessages' local `pending`
    idx,       \* processConversations' loop index (1-based)
    ru,        \* bot.respondedUsers: NilStore when loading failed, else its Users map
    file,      \* the responded-users file
    now,       \* the clock time.Now() reads
    config,    \* bot.config
    invoked,   \* history: the thread IDs passed to processConversation in this tick
    tick,      \* history: what this tick did
    last,      \* history: the latest processConversation invocation
    mu,        \* ru.mu: 0 when unlocked, else the execution context holding it
    sctx,      \* the execution contexts calling into the store concurrently
    marked,    \* history: the users loaded, or marked by a MarkResponded that returned
    rtext,     \* the text determineResponse is called with
    rres,      \* the replies its calls returned, in call order
    req,       \* the HTTP request the webhook server handled last
    resp,      \* what its handler did: the response, the sends, a panic
    served,    \* the number of requests the webhook server has handled
    outbox,    \* every sendReply call of the webhook server, in order
    saved,     \* history: the Users map at the latest Save that returned nil
    shutdown   \* history: what the deferred Cleanup did before the process exited

pollVars == <<pc, inbox, pending, idx, invoked, tick, last>>

botVars == <<pollVars, ru, file, now, config>>

storeVars == <<mu, sctx, marked>>

ruleVars == <<rtext, rres>>

webVars == <<req, resp, served, outbox>>

vars == <<botVars, storeVars, ruleVars, webVars, saved, shutdown>>

\* history records
NoInvocation ==
    [id |-> 0, convErr |-> FALSE, hasInbound |-> FALSE, found |-> FALSE, user |-> AccountID,
     wasMarked |-> FALSE, sends |-> 0,
     repliedBefore |-> FALSE, sendOk |-> FALSE, marks |-> 0, panicked |-> FALSE,
     changed |-> FALSE, delta |-> 0, text |-> ""]

NoTick ==
    [synced |-> FALSE, syncFailed |-> FALSE, pendingOk |-> FALSE, saveCalled |-> FALSE,
     afterFailure |-> FALSE, sendFailedAt |-> 0, sendFailedIn |-> "",
     ruAtStart |-> NilStore, fileAtStart |-> FileMissing]

NumCtx == 2

Ctx == 1..NumCtx

IdleCtx ==
    [pc |-> "idle", outer |-> "", call |-> "", arg |-> 0, ret |-> FALSE, data |-> FileMissing,
     seen |-> {}, sent |-> FALSE]

\* no execution context but the bot's own goroutine
StoreIdle ==
    /\ mu = 0
    /\ sctx = [c \in Ctx |-> IdleCtx]
    /\ marked = DOMAIN ru.Users

RulesIdle ==
    /\ rtext = << >>
    /\ rres = << >>

\* the requests of the webhook server: the query parameters of a GET, and for
\* the body of a POST what it lacks of the expected payload, whether data
\* follows its first JSON value, and the text of its message
NoRequest ==
    [method |-> "", mode |-> "", token |-> "", challenge |-> "",
     defect |-> "none", trailing |-> FALSE, text |-> << >>]

\* status 0: the handler wrote no response
NoResponse == [status |-> 0, body |-> "", panicked |-> FALSE, sends |-> << >>]

\* the webhook server has handled no request
WebIdle ==
    /\ req = NoRequest
    /\ resp = NoResponse
    /\ served = 0
    /\ outbox = << >>

NoSave == [ok |-> FALSE, Users |-> << >>]

NoShutdown == [ran |-> FALSE, exported |-> FALSE, saveCalled |-> FALSE]

\* no Save has returned and the process has not exited
LifeIdle ==
    /\ saved = NoSave
    /\ shutdown = NoShutdown

\* the state NewInstagramBot and Login leave: the store loaded from a file
Init ==
    /\ pc = "start"
    /\ inbox = [Conversations |-> << >>, Pending |-> << >>]
    /\ pending = << >>
    /\ idx = 1
    /\ file \in StartFiles
    /\ ru = NewRespondedUsers(file)
    /\ now = 1
    /\ config = BotConfig
    /\ invoked = << >>
    /\ tick = NoTick
    /\ last = NoInvocation
    /\ StoreIdle
    /\ RulesIdle
    /\ WebIdle
    /\ LifeIdle

(***************************************************************************)
(* The polling path: Start, checkMessages, processConversations,           *)
(* processConversation, respondToMessage, Cleanup.                         *)
(***************************************************************************)
RECURSIVE ScanBack(_, _)
\* the loop of processConversation: the index of the newest item that is not
\* the bot's own, 0 when lastMessage stays nil
ScanBack(items, i) ==
    IF i < 1 THEN 0
    ELSE IF items[i].UserID # AccountID THEN i
    ELSE ScanBack(items, i - 1)

LastMessage(items) == ScanBack(items, Len(items))

\* history: the conversation holds a message of an account other than the bot's
HasInbound(items) == \E k \in 1..Len(items) : items[k].UserID # AccountID

\* history: the number of entries in which two Users maps differ
EntriesChanged(U, V) ==
    Cardinality({x \in DOMAIN U \cup DOMAIN V :
                    \/ x \notin DOMAIN U
                    \/ x \notin DOMAIN V
                    \/ U[x] # V[x]})

\* a condition that lets through the users not yet replied to
RespondsToNewUsers(store, userID) == ~HasResponded(store.Users, userID)

\* the condition under which processConversation calls respondToMessage
ShouldRespond(store, userID) == HasResponded(store.Users, userID)

\* what os.WriteFile leaves: the data, the file as it was (open failed), or a
\* truncated file (the write failed after O_TRUNC)
WriteOutcomes == {"ok", "openfail", "partial"}

WriteFile(old, data, outcome) ==
    IF outcome = "ok" THEN data
    ELSE IF outcome = "openfail" THEN old
    ELSE FileMalformed

\* Start: the initial check, and every tick of the ticker
Tick ==
    /\ pc \in {"start", "wait"}
    /\ now < MaxTime
    /\ pc' = "check"
    /\ invoked' = << >>
    /\ tick' = [NoTick EXCEPT !.afterFailure = tick.syncFailed,
                              !.ruAtStart = ru, !.fileAtStart = file]
    /\ last' = NoInvocation
    /\ UNCHANGED <<inbox, pending, idx, ru, file, now, config>>
    /\ UNCHANGED <<storeVars, ruleVars, webVars, saved, shutdown>>

\* checkMessages without the return after a failed Sync
SyncFailFallsThrough ==
    /\ pc = "check"
    /\ pc' = "syncPending"
    /\ pending' = inbox.Conversations
    /\ tick' = [tick EXCEPT !.syncFailed = TRUE]
    /\ UNCHANGED <<inbox, idx, ru, file, now, config, invoked, last>>
    /\ UNCHANGED <<storeVars, ruleVars, webVars, saved, shutdown>>

\* checkMessages: inbox.Sync() fails, the tick returns
SyncFail ==
    /\ pc = "check"
    /\ pc' = "wait"
    /\ tick' = [tick EXCEPT !.syncFailed = TRUE]
    /\ UNCHANGED <<inbox, pending, idx, ru, file, now, config, invoked, last>>
    /\ UNCHANGED <<storeVars, ruleVars, webVars, saved, shutdown>>

\* checkMessages: inbox.Sync() succeeds; pending := inbox.Conversations
SyncOk ==
    /\ pc = "check"
    /\ \E convs \in Snapshots(MaxConvs) :
        /\ inbox' = [inbox EXCEPT !.Conversations = convs]
        /\ pending' = convs
    /\ pc' = "syncPending"
    /\ tick' = [tick EXCEPT !.synced = TRUE]
    /\ UNCHANGED <<idx, ru, file, now, config, invoked, last>>
    /\ UNCHANGED <<storeVars, ruleVars, webVars, saved, shutdown>>

\* checkMessages: inbox.SyncPending() fails, the pending pass is skipped
SyncPendingFail ==
    /\ pc = "syncPending"
    /\ pc' = "regular"
    /\ idx' = 1
    /\ UNCHANGED <<inbox, pending, ru, file, now, config, invoked, tick, last>>
    /\ UNCHANGED <<storeVars, ruleVars, webVars, saved, shutdown>>

\* checkMessages: inbox.SyncPending() succeeds and fills inbox.Pending;
\* processConversations(pending) starts
SyncPendingOk ==
    /\ pc = "syncPending"
    /\ \E p \in PendingSnapshots(MaxPending) : inbox' = [inbox EXCEPT !.Pending = p]
    /\ pc' = "pendingPass"
    /\ idx' = 1
    /\ tick' = [tick EXCEPT !.pendingOk = TRUE]
    /\ UNCHANGED <<pending, ru, file, now, config, invoked, last>>
    /\ UNCHANGED <<storeVars, ruleVars, webVars, saved, shutdown>>

\* the slice the running processConversations ranges over
CurrentList == IF pc = "pendingPass" THEN pending ELSE inbox.Conversations

\* one iteration of processConversations: processConversation(conv), with
\* respondToMessage when it is called
ProcessConversation ==
    /\ pc \in {"pendingPass", "regular"}
    /\ idx <= Len(CurrentList)
    /\ LET conv == CurrentList[idx]
           i == LastMessage(conv.Items)
           inv == [NoInvocation EXCEPT !.id = conv.ID, !.convErr = FALSE,
                                       !.hasInbound = HasInbound(conv.Items)]
       IN
       /\ invoked' = Append(invoked, conv.ID)
       /\ \E convErr \in BOOLEAN :
          IF convErr
          THEN \* conv.Error() # nil: return
               /\ last' = [inv EXCEPT !.convErr = TRUE]
               /\ idx' = idx + 1
               /\ UNCHANGED <<pc, ru, now>>
          ELSE IF i = 0
          THEN \* lastMessage is nil: lastMessage.UserID panics
               /\ last' = [inv EXCEPT !.panicked = TRUE]
               /\ pc' = "panic"
               /\ UNCHANGED <<idx, ru, now>>
          ELSE LET item == conv.Items[i]
                   userID == item.UserID
                   found == [inv EXCEPT !.found = TRUE, !.user = userID]
               IN
               IF ru.isNil
               THEN \* HasResponded on a nil receiver panics
                    /\ last' = [found EXCEPT !.panicked = TRUE]
                    /\ pc' = "panic"
                    /\ UNCHANGED <<idx, ru, now>>
               ELSE LET known == [found EXCEPT
                                     !.wasMarked = userID \in DOMAIN ru.Users,
                                     !.repliedBefore = /\ userID \in DOMAIN ru.Users
                                                       /\ ru.Users[userID].mono]
                    IN
                    IF ShouldRespond(ru, userID)
                    THEN \* respondToMessage
                         \E responseText \in determineResponse(config, ToLower(item.Text)),
                            sendOk \in BOOLEAN :
                            IF sendOk
                            THEN /\ ru' = [ru EXCEPT !.Users = MarkResponded(ru.Users, item.UserID, now)]
                                 /\ now' = now + 1
                                 /\ last' = [known EXCEPT !.sends = 1, !.sendOk = TRUE, !.marks = 1,
                                                           !.changed = (ru'.Users # ru.Users),
                                                           !.delta = EntriesChanged(ru.Users, ru'.Users),
                                                           !.text = responseText]
                                 /\ idx' = idx + 1
                                 /\ UNCHANGED pc
                            ELSE /\ last' = [known EXCEPT !.sends = 1, !.text = responseText]
                                 /\ idx' = idx + 1
                                 /\ UNCHANGED <<pc, ru, now>>
                    ELSE /\ last' = known
                         /\ idx' = idx + 1
                         /\ UNCHANGED <<pc, ru, now>>
    /\ tick' = IF last'.sends = 1 /\ ~last'.sendOk /\ tick.sendFailedAt = 0
               THEN [tick EXCEPT !.sendFailedAt = idx, !.sendFailedIn = pc]
               ELSE tick
    /\ UNCHANGED <<inbox, pending, file, config>>
    /\ UNCHANGED <<storeVars, ruleVars, webVars, saved, shutdown>>

\* processConversations(pending) returns; processConversations(inbox.Conversations) starts
EndPendingPass ==
    /\ pc = "pendingPass"
    /\ idx > Len(pending)
    /\ pc' = "regular"
    /\ idx' = 1
    /\ UNCHANGED <<inbox, pending, ru, file, now, config, invoked, tick, last>>
    /\ UNCHANGED <<storeVars, ruleVars, webVars, saved, shutdown>>

\* processConversations(inbox.Conversations) returns
EndRegularPass ==
    /\ pc = "regular"
    /\ idx > Len(inbox.Conversations)
    /\ pc' = "save"
    /\ UNCHANGED <<inbox, pending, idx, ru, file, now, config, invoked, tick, last>>
    /\ UNCHANGED <<storeVars, ruleVars, webVars, saved, shutdown>>

\* checkMessages: bot.respondedUsers.Save, the end of the tick
SaveStore ==
    /\ pc = "save"
    /\ IF ru.isNil
       THEN \* Save on a nil receiver panics
            /\ pc' = "panic"
            /\ UNCHANGED <<file, tick>>
       ELSE \E outcome \in WriteOutcomes :
            /\ file' = WriteFile(file, MarshalUsers(ru.Users), outcome)
            /\ tick' = [tick EXCEPT !.saveCalled = TRUE]
            /\ pc' = "wait"
    /\ UNCHANGED <<inbox, pending, idx, ru, now, config, invoked, last>>
    /\ UNCHANGED <<storeVars, ruleVars, webVars, saved, shutdown>>

\* main's deferred bot.Cleanup(), run while the panic unwinds; the process exits
Cleanup ==
    /\ pc = "panic"
    /\ pc' = "exited"
    /\ IF ru.isNil
       THEN UNCHANGED file
       ELSE \E outcome \in WriteOutcomes :
            file' = WriteFile(file, MarshalUsers(ru.Users), outcome)
    /\ shutdown' = [ran |-> TRUE, exported |-> TRUE, saveCalled |-> ~ru.isNil]
    /\ UNCHANGED <<inbox, pending, idx, ru, now, config, invoked, tick, last>>
    /\ UNCHANGED <<storeVars, ruleVars, webVars, saved>>

Next ==
    \/ Tick
    \/ SyncFail
    \/ SyncOk
    \/ SyncPendingFail
    \/ SyncPendingOk
    \/ ProcessConversation
    \/ EndPendingPass
    \/ EndRegularPass
    \/ SaveStore
    \/ Cleanup

Spec == Init /\ [][Next]_vars

(***************************************************************************)
(* The store under concurrent callers: every method takes ru.mu for its    *)
(* whole body (Lock, deferred Unlock). A caller runs one method, or the    *)
(* store path of processConversation / respondToMessage for one message:   *)
(* HasResponded, the send, MarkResponded.                                  *)
(***************************************************************************)
StoreMethods == {"HasResponded", "MarkResponded", "Save"}

\* a Lock that never waits
MutexNeverBlocks(m) == TRUE

\* ru.mu.Lock() returns only when the mutex is free
MutexFree(m) == m = 0

\* the bodies of the store's methods are between Lock and Unlock
InBody(c) == sctx[c].pc \in {"body", "write", "unlock"}

\* another caller is inside a method body at the same time
RacingWith(c) == \E d \in Ctx \ {c} : InBody(d)

\* what a map access racing with another leaves of the map
RacedMaps == UNION {[S -> {TimeNow(t) : t \in 0..now}] : S \in SUBSET UserIDs}

\* a caller invokes a method of the store, or processes a message of userID
Call(c) ==
    /\ sctx[c].pc = "idle"
    /\ \E op \in StoreMethods \cup {"Process"}, userID \in UserIDs :
        /\ op \in {"MarkResponded", "Process"} => now < MaxTime
        /\ op = "Save" => userID = 1
        /\ sctx' = [sctx EXCEPT ![c] =
               [IdleCtx EXCEPT !.pc = "lock",
                               !.outer = IF op = "Process" THEN "Process" ELSE "",
                               !.call = IF op = "Process" THEN "HasResponded" ELSE op,
                               !.arg = IF op = "Save" THEN 0 ELSE userID,
                               !.seen = IF op \in {"Save", "Process"} THEN marked ELSE {}]]
    /\ UNCHANGED <<mu, marked, ru, file, now, config, pollVars, ruleVars, webVars, saved, shutdown>>

\* ru.mu.Lock()
Lock(c) ==
    /\ sctx[c].pc = "lock"
    /\ MutexFree(mu)
    /\ mu' = c
    /\ sctx' = [sctx EXCEPT ![c].pc = "body"]
    /\ UNCHANGED <<marked, ru, file, now, config, pollVars, ruleVars, webVars, saved, shutdown>>

\* HasResponded: _, exists := ru.Users[userID]
HasRespondedBody(c) ==
    /\ sctx[c].pc = "body"
    /\ sctx[c].call = "HasResponded"
    /\ sctx' = [sctx EXCEPT ![c].pc = "unlock",
                            ![c].ret = HasResponded(ru.Users, sctx[c].arg)]
    /\ UNCHANGED <<mu, marked, ru, file, now, config, pollVars, ruleVars, webVars, saved, shutdown>>

\* MarkResponded: ru.Users[userID] = time.Now(); a write racing with another
\* access of the map is a data race
MarkRespondedBody(c) ==
    /\ sctx[c].pc = "body"
    /\ sctx[c].call = "MarkResponded"
    /\ IF RacingWith(c)
       THEN \E m \in RacedMaps : ru' = [ru EXCEPT !.Users = m]
       ELSE ru' = [ru EXCEPT !.Users = MarkResponded(ru.Users, sctx[c].arg, now)]
    /\ now' = now + 1
    /\ sctx' = [sctx EXCEPT ![c].pc = "unlock"]
    /\ UNCHANGED <<mu, marked, file, config, pollVars, ruleVars, webVars, saved, shutdown>>

\* a Save that unlocks once it has marshalled
ReleasedBeforeWrite(c) == 0

\* Save keeps ru.mu from its Lock to its deferred Unlock, over the marshal and the write
HolderDuringWrite(c) == c

\* Save: data, err := json.MarshalIndent(ru.Users, "", "  ")
SaveMarshal(c) ==
    /\ sctx[c].pc = "body"
    /\ sctx[c].call = "Save"
    /\ sctx' = [sctx EXCEPT ![c].pc = "write", ![c].data = MarshalUsers(ru.Users)]
    /\ mu' = HolderDuringWrite(c)
    /\ UNCHANGED <<marked, ru, file, now, config, pollVars, ruleVars, webVars, saved, shutdown>>

\* Save: os.WriteFile(filepath, data, 0644)
SaveWrite(c) ==
    /\ sctx[c].pc = "write"
    /\ \E outcome \in WriteOutcomes :
        /\ file' = WriteFile(file, sctx[c].data, outcome)
        /\ sctx' = [sctx EXCEPT ![c].pc = "unlock", ![c].ret = (outcome = "ok")]
    /\ UNCHANGED <<mu, marked, ru, now, config, pollVars, ruleVars, webVars, saved, shutdown>>

\* the deferred ru.mu.Unlock() and the return; processConversation goes on to
\* its condition after HasResponded
Unlock(c) ==
    /\ sctx[c].pc = "unlock"
    /\ mu' = 0
    /\ sctx' = [sctx EXCEPT ![c].pc =
           IF sctx[c].outer = "Process" /\ sctx[c].call = "HasResponded"
           THEN "decide" ELSE "idle"]
    /\ marked' = IF sctx[c].call = "MarkResponded" THEN marked \cup {sctx[c].arg} ELSE marked
    /\ UNCHANGED <<ru, file, now, config, pollVars, ruleVars, webVars, saved, shutdown>>

\* processConversation: if bot.respondedUsers.HasResponded(userID) { respondToMessage }
Decide(c) ==
    /\ sctx[c].pc = "decide"
    /\ sctx' = [sctx EXCEPT ![c].pc = IF sctx[c].ret THEN "send" ELSE "idle"]
    /\ UNCHANGED <<mu, marked, ru, file, now, config, pollVars, ruleVars, webVars, saved, shutdown>>

\* respondToMessage: conv.Send, then MarkResponded unless the send failed
Send(c) ==
    /\ sctx[c].pc = "send"
    /\ \E sendOk \in BOOLEAN :
        sctx' = [sctx EXCEPT ![c].sent = TRUE,
                             ![c].pc = IF sendOk THEN "lock" ELSE "idle",
                             ![c].call = IF sendOk THEN "MarkResponded" ELSE sctx[c].call]
    /\ UNCHANGED <<mu, marked, ru, file, now, config, pollVars, ruleVars, webVars, saved, shutdown>>

\* a store loaded from a file, and callers about to use it
InitStore ==
    /\ pc = "start"
    /\ inbox = [Conversations |-> << >>, Pending |-> << >>]
    /\ pending = << >>
    /\ idx = 1
    /\ file \in StartFiles \ {FileMalformed}
    /\ ru = NewRespondedUsers(file)
    /\ now = 1
    /\ config = BotConfig
    /\ invoked = << >>
    /\ tick = NoTick
    /\ last = NoInvocation
    /\ StoreIdle
    /\ RulesIdle
    /\ WebIdle
    /\ LifeIdle

NextStore ==
    \E c \in Ctx :
        \/ Call(c)
        \/ Lock(c)
        \/ HasRespondedBody(c)
        \/ MarkRespondedBody(c)
        \/ SaveMarshal(c)
        \/ SaveWrite(c)
        \/ Unlock(c)
        \/ Decide(c)
        \/ Send(c)

SpecStore == InitStore /\ [][NextStore]_vars

(***************************************************************************)
(* One pass of processConversations over a list, to the end of the tick.   *)
(***************************************************************************)
MaxList == 3

\* checkMessages after a Sync that returned the list and a failed SyncPending
InitPass ==
    /\ pc = "regular"
    /\ \E convs \in Snapshots(MaxList) :
        /\ inbox = [Conversations |-> convs, Pending |-> << >>]
        /\ pending = convs
    /\ idx = 1
    /\ file \in StartFiles
    /\ ru = NewRespondedUsers(file)
    /\ now = 1
    /\ config = BotConfig
    /\ invoked = << >>
    /\ tick = [NoTick EXCEPT !.synced = TRUE, !.ruAtStart = ru, !.fileAtStart = file]
    /\ last = NoInvocation
    /\ StoreIdle
    /\ RulesIdle
    /\ WebIdle
    /\ LifeIdle

NextPass ==
    \/ ProcessConversation
    \/ EndRegularPass
    \/ SaveStore
    \/ Cleanup

SpecPass == InitPass /\ [][NextPass]_vars

(***************************************************************************)
(* The rule engine alone: calls of determineResponse with one text under   *)
(* one configuration.                                                      *)
(***************************************************************************)
MaxCalls == 2

Keywords == {<<"a">>, <<"b">>}

Configs ==
    UNION {{[ResponseRules |-> m, DefaultResponse |-> DefaultReply, Order |-> o]
            : m \in [K -> Replies], o \in RangeOrders(K)} : K \in SUBSET Keywords}

InitRules ==
    /\ pc = "start"
    /\ inbox = [Conversations |-> << >>, Pending |-> << >>]
    /\ pending = << >>
    /\ idx = 1
    /\ file = FileMissing
    /\ ru = NewRespondedUsers(file)
    /\ now = 1
    /\ config \in Configs
    /\ invoked = << >>
    /\ tick = NoTick
    /\ last = NoInvocation
    /\ StoreIdle
    /\ rtext \in Strings(MaxLen)
    /\ rres = << >>
    /\ WebIdle
    /\ LifeIdle

\* bot.determineResponse(messageText)
DetermineResponse ==
    /\ Len(rres) < MaxCalls
    /\ \E r \in determineResponse(config, rtext) : rres' = Append(rres, r)
    /\ UNCHANGED <<rtext, botVars, storeVars, webVars, saved, shutdown>>

NextRules == DetermineResponse

SpecRules == InitRules /\ [][NextRules]_vars

(***************************************************************************)
(* The webhook server: handleWebhook, verifyWebhook, handleIncomingMessage, *)
(* sendReply. A decoded JSON value is a Go interface{}: nil, a string, a   *)
(* float64, a []interface{} or a map[string]interface{}.                   *)
(***************************************************************************)
MaxReqs == 2

verifyToken == "YOUR_VERIFY_TOKEN"

HelloReply == "Hello! Thanks for messaging us."

JNull == [t |-> "null", v |-> << >>]

JString(s) == [t |-> "string", v |-> s]

JNumber == [t |-> "number", v |-> << >>]

JArray(seq) == [t |-> "array", v |-> seq]

JObject(m) == [t |-> "object", v |-> m]

\* a map[string]interface{} without keys, also what reading a nil map gives
NoKeys == [k \in {} |-> JNull]

\* m[key] of a map[string]interface{}: nil when the key is absent
Lookup(m, key) == IF key \in DOMAIN m THEN m[key] ELSE JNull

\* the type assertions of handleIncomingMessage succeed on these
IsList(x) == x.t = "array"

IsMap(x) == x.t = "object"

IsString(x) == x.t = "string"

\* what a POST body may lack of entry[0].changes[0].value.messages[0].from
Defects ==
    {"none", "notJSON", "topNull", "topArray",
     "noEntry", "entryNotList", "entryEmpty", "entry0NotObject",
     "noChanges", "changesNotList", "changesEmpty", "changes0NotObject",
     "noValue", "valueNotObject",
     "noMessages", "messagesNotList", "messagesEmpty", "message0NotObject",
     "noFrom", "fromNotString"}

SenderID == <<"1">>

WebTexts == {<< >>, <<"a">>, <<"A", "b">>}

Message(d, text) ==
    IF d = "message0NotObject" THEN JString(text)
    ELSE JObject((IF d = "noFrom" THEN NoKeys
                  ELSE "from" :> (IF d = "fromNotString" THEN JNumber ELSE JString(SenderID)))
                 @@ ("text" :> JString(text)))

Messages(d, text) ==
    IF d = "messagesNotList" THEN JString(text)
    ELSE IF d = "messagesEmpty" THEN JArray(<< >>)
    ELSE JArray(<<Message(d, text)>>)

Value(d, text) ==
    IF d = "valueNotObject" THEN JString(text)
    ELSE JObject(IF d = "noMessages" THEN NoKeys ELSE "messages" :> Messages(d, text))

Changes(d, text) ==
    IF d = "changesNotList" THEN JString(text)
    ELSE IF d = "changesEmpty" THEN JArray(<< >>)
    ELSE IF d = "changes0NotObject" THEN JArray(<<JNumber>>)
    ELSE JArray(<<JObject(IF d = "noValue" THEN NoKeys ELSE "value" :> Value(d, text))>>)

Entry(d, text) ==
    IF d = "entryNotList" THEN JString(text)
    ELSE IF d = "entryEmpty" THEN JArray(<< >>)
    ELSE IF d = "entry0NotObject" THEN JArray(<<JNumber>>)
    ELSE JArray(<<JObject(IF d = "noChanges" THEN NoKeys ELSE "changes" :> Changes(d, text))>>)

\* the first JSON value of the body
Payload(d, text) ==
    IF d = "topNull" THEN JNull
    ELSE IF d = "topArray" THEN JArray(<< >>)
    ELSE JObject(IF d = "noEntry" THEN NoKeys ELSE "entry" :> Entry(d, text))

\* r.Body: whether it starts with a JSON value, that value, and whether data
\* that is not JSON follows the value
Body(r) ==
    [hasValue |-> r.defect # "notJSON",
     value |-> Payload(r.defect, r.text),
     trailing |-> r.trailing]

\* the whole body is one JSON text
ValidJSON(b) == b.hasValue /\ ~b.trailing

\* json.NewDecoder(r.Body).Decode(&payload), payload a map[string]interface{}:
\* reads the first JSON value of the stream and nothing after it; null leaves
\* the map nil, a value that is no object is an error
Decode(b) ==
    IF ~b.hasValue THEN [err |-> TRUE, payload |-> NoKeys]
    ELSE IF b.value.t = "null" THEN [err |-> FALSE, payload |-> NoKeys]
    ELSE IF b.value.t # "object" THEN [err |-> TRUE, payload |-> NoKeys]
    ELSE [err |-> FALSE, payload |-> b.value.v]

Modes == {"subscribe", "unsubscribe", ""}

Tokens == {verifyToken, "wrong", ""}

Challenges == {"abc123", ""}

Requests ==
    [method : {"GET"}, mode : Modes, token : Tokens, challenge : Challenges,
     defect : {"none"}, trailing : {FALSE}, text : {<< >>}]
    \cup [method : {"POST"}, mode : {""}, token : {""}, challenge : {""},
          defect : Defects, trailing : BOOLEAN, text : WebTexts]
    \cup [method : {"PUT"}, mode : {""}, token : {""}, challenge : {""},
          defect : {"none"}, trailing : {FALSE}, text : {<< >>}]

\* a verification that looks at the mode only
VerifiedByModeAlone(mode, token) == mode = "subscribe"

\* verifyWebhook: mode == "subscribe" && token == verifyToken
Verified(mode, token) == mode = "subscribe" /\ token = verifyToken

\* verifyWebhook: Fprintf writes the challenge with the implicit status 200
verifyWebhook(r) ==
    IF Verified(r.mode, r.token)
    THEN [NoResponse EXCEPT !.status = 200, !.body = r.challenge]
    ELSE [NoResponse EXCEPT !.status = 403]

\* a handler that reports the error of sendReply to the platform
StatusOfSend(sendOk) == IF sendOk THEN 200 ELSE 500

\* handleIncomingMessage: the error of sendReply is logged, then WriteHeader(StatusOK)
StatusAfterReply(sendOk) == 200

\* a failed type assertion or an index out of range: the handler panics,
\* net/http recovers it in the connection's goroutine, closes the connection
\* without a response, and the server goes on serving
Panicked == [NoResponse EXCEPT !.panicked = TRUE]

handleIncomingMessage(r, sendOk) ==
    LET dec == Decode(Body(r)) IN
    IF dec.err THEN [NoResponse EXCEPT !.status = 400] ELSE
    LET entryList == Lookup(dec.payload, "entry") IN
    IF ~IsList(entryList) THEN Panicked ELSE
    IF Len(entryList.v) = 0 THEN Panicked ELSE
    IF ~IsMap(entryList.v[1]) THEN Panicked ELSE
    LET changesList == Lookup(entryList.v[1].v, "changes") IN
    IF ~IsList(changesList) THEN Panicked ELSE
    IF Len(changesList.v) = 0 THEN Panicked ELSE
    IF ~IsMap(changesList.v[1]) THEN Panicked ELSE
    LET value == Lookup(changesList.v[1].v, "value") IN
    IF ~IsMap(value) THEN Panicked ELSE
    LET messages == Lookup(value.v, "messages") IN
    IF ~IsList(messages) THEN Panicked ELSE
    IF Len(messages.v) = 0 THEN [NoResponse EXCEPT !.status = 200] ELSE
    IF ~IsMap(messages.v[1]) THEN Panicked ELSE
    LET senderID == Lookup(messages.v[1].v, "from") IN
    IF ~IsString(senderID) THEN Panicked ELSE
    [NoResponse EXCEPT
        !.status = StatusAfterReply(sendOk),
        !.sends = <<[to |-> senderID.v, text |-> HelloReply, ok |-> sendOk]>>]

handleWebhook(r, sendOk) ==
    IF r.method = "GET" THEN verifyWebhook(r)
    ELSE IF r.method = "POST" THEN handleIncomingMessage(r, sendOk)
    ELSE [NoResponse EXCEPT !.status = 405]

\* the server's state before any request; the poller's store is not its own
InitWeb ==
    /\ pc = "start"
    /\ inbox = [Conversations |-> << >>, Pending |-> << >>]
    /\ pending = << >>
    /\ idx = 1
    /\ file \in StartFiles
    /\ ru = NewRespondedUsers(file)
    /\ now = 1
    /\ config = BotConfig
    /\ invoked = << >>
    /\ tick = NoTick
    /\ last = NoInvocation
    /\ StoreIdle
    /\ RulesIdle
    /\ WebIdle
    /\ LifeIdle

\* one request to /webhook, handled to its end; sendOk is what sendReply
\* returns when it is called
HandleWebhook ==
    /\ served < MaxReqs
    /\ \E r \in Requests, sendOk \in BOOLEAN :
        /\ req' = r
        /\ resp' = handleWebhook(r, sendOk)
        /\ outbox' = outbox \o handleWebhook(r, sendOk).sends
    /\ served' = served + 1
    /\ UNCHANGED <<botVars, storeVars, ruleVars, saved, shutdown>>

NextWeb == HandleWebhook

SpecWeb == InitWeb /\ [][NextWeb]_vars

(***************************************************************************)
(* The process from main's defer to its exit: Login, then Start.           *)
(***************************************************************************)
\* main after NewInstagramBot returned and bot.Cleanup was deferred
InitMain ==
    /\ pc = "login"
    /\ inbox = [Conversations |-> << >>, Pending |-> << >>]
    /\ pending = << >>
    /\ idx = 1
    /\ file \in StartFiles
    /\ ru = NewRespondedUsers(file)
    /\ now = 1
    /\ config = BotConfig
    /\ invoked = << >>
    /\ tick = NoTick
    /\ last = NoInvocation
    /\ StoreIdle
    /\ RulesIdle
    /\ WebIdle
    /\ LifeIdle

\* main: bot.Login() returns nil, bot.Start() begins
LoginOk ==
    /\ pc = "login"
    /\ pc' = "start"
    /\ UNCHANGED <<inbox, pending, idx, ru, file, now, config, invoked, tick, last>>
    /\ UNCHANGED <<storeVars, ruleVars, webVars, saved, shutdown>>

\* main: bot.Login() fails, log.Fatalf logs and calls os.Exit(1), which runs
\* no deferred function
LoginFail ==
    /\ pc = "login"
    /\ pc' = "exited"
    /\ UNCHANGED <<inbox, pending, idx, ru, file, now, config, invoked, tick, last>>
    /\ UNCHANGED <<storeVars, ruleVars, webVars, saved, shutdown>>

NextMain ==
    \/ LoginOk
    \/ LoginFail
    \/ Next

SpecMain == InitMain /\ [][NextMain]_vars

(***************************************************************************)
(* The store across restarts of the process: MarkResponded, Save, and      *)
(* NewRespondedUsers on the same path when the process starts again.       *)
(***************************************************************************)
\* the time.Time values a store may hold by time t: read from a file, or
\* stamped by time.Now()
Times(t) == {[wall |-> w, mono |-> m] : w \in 0..t, m \in BOOLEAN}

StoreContents(t) == UNION {[S -> Times(t)] : S \in SUBSET UserIDs}

InitTrip ==
    /\ pc = "running"
    /\ inbox = [Conversations |-> << >>, Pending |-> << >>]
    /\ pending = << >>
    /\ idx = 1
    /\ file \in StartFiles
    /\ now = 1
    /\ \E U \in StoreContents(now) : ru = [isNil |-> FALSE, Users |-> U]
    /\ config = BotConfig
    /\ invoked = << >>
    /\ tick = NoTick
    /\ last = NoInvocation
    /\ StoreIdle
    /\ RulesIdle
    /\ WebIdle
    /\ LifeIdle

\* ru.MarkResponded(userID)
Mark ==
    /\ pc \in {"running", "loaded"}
    /\ ~ru.isNil
    /\ now < MaxTime
    /\ \E userID \in UserIDs : ru' = [ru EXCEPT !.Users = MarkResponded(ru.Users, userID, now)]
    /\ now' = now + 1
    /\ pc' = "running"
    /\ UNCHANGED <<inbox, pending, idx, file, config, invoked, tick, last>>
    /\ UNCHANGED <<storeVars, ruleVars, webVars, saved, shutdown>>

\* ru.Save(filepath), from Lock to return
Save ==
    /\ pc \in {"running", "loaded"}
    /\ ~ru.isNil
    /\ \E outcome \in WriteOutcomes :
        /\ file' = WriteFile(file, MarshalUsers(ru.Users), outcome)
        /\ saved' = IF outcome = "ok" THEN [ok |-> TRUE, Users |-> ru.Users] ELSE NoSave
    /\ UNCHANGED <<pc, inbox, pending, idx, ru, now, config, invoked, tick, last>>
    /\ UNCHANGED <<storeVars, ruleVars, webVars, shutdown>>

\* the process starts again: NewRespondedUsers(filepath) on the same path
Restart ==
    /\ pc \in {"running", "loaded"}
    /\ ru' = NewRespondedUsers(file)
    /\ pc' = "loaded"
    /\ UNCHANGED <<inbox, pending, idx, file, now, config, invoked, tick, last>>
    /\ UNCHANGED <<storeVars, ruleVars, webVars, saved, shutdown>>

NextTrip ==
    \/ Mark
    \/ Save
    \/ Restart

SpecTrip == InitTrip /\ [][NextTrip]_vars

(***************************************************************************)
(* One invocation of processConversation, on any conversation and store.   *)
(***************************************************************************)
\* processConversations about to pass the only conversation of its list
InitInvocation ==
    /\ pc = "regular"
    /\ \E convs \in Snapshots(1) :
        /\ Len(convs) = 1
        /\ inbox = [Conversations |-> convs, Pending |-> << >>]
        /\ pending = convs
    /\ idx = 1
    /\ file \in StartFiles
    /\ ru = NewRespondedUsers(file)
    /\ now = 1
    /\ config = BotConfig
    /\ invoked = << >>
    /\ tick = [NoTick EXCEPT !.synced = TRUE, !.ruAtStart = ru, !.fileAtStart = file]
    /\ last = NoInvocation
    /\ StoreIdle
    /\ RulesIdle
    /\ WebIdle
    /\ LifeIdle

NextInvocation ==
    \/ ProcessConversation
    \/ EndRegularPass
    \/ SaveStore
    \/ Cleanup

SpecInvocation == InitInvocation /\ [][NextInvocation]_vars

(***************************************************************************)
(* The claims.                                                             *)
(***************************************************************************)
Count(seq, x) == Cardinality({k \in 1..Len(seq) : seq[k] = x})

\* checkMessages has returned to the ticker loop
TickOver == pc = "wait"

\* the thread IDs of this tick's snapshot: the regular inbox, and the pending
\* inbox when its refresh succeeded
SnapshotIDs ==
    {inbox.Conversations[k].ID : k \in 1..Len(inbox.Conversations)}
    \cup (IF tick.pendingOk
          THEN {inbox.Pending[k].ID : k \in 1..Len(inbox.Pending)}
          ELSE {})

\* C1: an invocation of processConversation whose most recent non-bot message
\* is from a user absent from the store, and whose send does not fail, makes
\* exactly one send and one MarkResponded; an invocation for a user this
\* process already replied to makes no send.
C1_FirstContactRepliedOnce ==
    /\ (last.found /\ ~last.wasMarked /\ ~last.panicked /\ ~(last.sends = 1 /\ ~last.sendOk))
          => (last.sends = 1 /\ last.marks = 1)
    /\ (last.found /\ last.repliedBefore) => last.sends = 0

\* C2: an invocation of processConversation whose most recent non-bot message
\* is from a user already in the store makes no send and leaves the store as
\* it was.
C2_MarkedUserUntouched ==
    (last.found /\ last.wasMarked) => (last.sends = 0 /\ last.marks = 0 /\ ~last.changed)

\* C3: an invocation whose send failed did not mark the user, and once the
\* pass in which a send failed is over, every conversation of its list after
\* the failing one was passed to processConversation.
C3_SendFailureDoesNotAbort ==
    /\ (last.sends = 1 /\ ~last.sendOk) => (last.marks = 0 /\ ~last.changed)
    /\ (tick.sendFailedAt > 0 /\ pc # tick.sendFailedIn)
          => IF tick.sendFailedIn = "pendingPass"
             THEN Len(invoked) >= Len(pending)
             ELSE Len(invoked) = (IF tick.pendingOk THEN Len(pending) ELSE 0)
                                 + Len(inbox.Conversations)

\* C4: an invocation on a conversation with no message of another account
\* (an empty one included) makes no send, leaves the store as it was and does
\* not panic, and the poll cycle goes on.
C4_NoInboundIsNoOp ==
    (last.id # 0 /\ ~last.hasInbound)
        => (~last.panicked /\ last.sends = 0 /\ ~last.changed /\ pc \notin {"panic", "exited"})

\* a caller has passed the check of a message it will reply to and has not yet
\* entered MarkResponded
BetweenCheckAndMark(c) ==
    /\ sctx[c].outer = "Process"
    /\ \/ sctx[c].pc = "decide" /\ sctx[c].ret
       \/ sctx[c].pc = "send"
       \/ sctx[c].pc = "lock" /\ sctx[c].call = "MarkResponded"

\* C5: the check and the following mark are one critical section (the caller
\* holds ru.mu from the check to the mark), and of two callers processing a
\* message of the same user, unmarked when both started, at most one sends.
C5_CheckThenMarkAtomic ==
    /\ \A c \in Ctx : BetweenCheckAndMark(c) => mu = c
    /\ \A a, b \in Ctx :
          (/\ a # b
           /\ sctx[a].outer = "Process" /\ sctx[b].outer = "Process"
           /\ sctx[a].pc # "idle" /\ sctx[b].pc # "idle"
           /\ sctx[a].arg = sctx[b].arg
           /\ sctx[a].arg \notin sctx[a].seen \cup sctx[b].seen)
          => ~(sctx[a].sent /\ sctx[b].sent)

\* C6: no two callers are inside the bodies of HasResponded, MarkResponded or
\* Save at once, and a caller inside a body holds ru.mu.
C6_MutualExclusion ==
    /\ \A a, b \in Ctx : a # b => ~(InBody(a) /\ InBody(b))
    /\ \A c \in Ctx : InBody(c) => mu = c

\* two callers contend: one is inside a body while the other waits in Lock
C6_Witness ==
    \E a, b \in Ctx :
        /\ a # b
        /\ InBody(a)
        /\ sctx[b].pc = "lock"
        /\ sctx[a].call # sctx[b].call

\* C7: every user loaded or marked by a MarkResponded that returned is in the
\* map; a Save writes the map as it is while the Save runs; and when a Save has
\* written without error, the file holds the map, with every user that was
\* loaded or marked when the Save was called.
C7_NoMarkLost ==
    /\ marked \subseteq DOMAIN ru.Users
    /\ \A c \in Ctx :
          (sctx[c].call = "Save" /\ sctx[c].pc = "write")
              => sctx[c].data = MarshalUsers(ru.Users)
    /\ \A c \in Ctx :
          (sctx[c].call = "Save" /\ sctx[c].pc = "unlock" /\ sctx[c].ret)
              => /\ file = MarshalUsers(ru.Users)
                 /\ sctx[c].seen \subseteq DOMAIN file.users

\* a Save called after a mark of another caller returned has written, while
\* the other caller waits to mark again
C7_Witness ==
    \E a, b \in Ctx :
        /\ a # b
        /\ sctx[a].call = "Save" /\ sctx[a].pc = "unlock" /\ sctx[a].ret
        /\ sctx[a].seen # DOMAIN NewRespondedUsers(FileMissing).Users
        /\ \E u \in sctx[a].seen : ru.Users[u].mono
        /\ sctx[b].call = "MarkResponded" /\ sctx[b].pc = "lock"

\* C8: every call of determineResponse returns the reply of the first rule, in
\* the configured order, whose keyword is in the text, or the default when no
\* keyword is; two calls with the same configuration and text agree.
C8_FirstConfiguredRuleWins ==
    /\ \A k \in 1..Len(rres) : rres[k] = FirstMatch(config, config.Order, 1, rtext)
    /\ \A j, k \in 1..Len(rres) : rres[j] = rres[k]

\* C9: when a tick whose Sync succeeded is over, every thread of its snapshot
\* (regular and pending) was passed to processConversation exactly once, and
\* Save was called after them.
C9_EachThreadOnceThenSave ==
    (tick.synced /\ TickOver)
        => /\ \A id \in SnapshotIDs : Count(invoked, id) = 1
           /\ tick.saveCalled

\* C10: in a tick whose Sync failed nothing was processed, nothing was sent,
\* the store and its file are as they were when the tick began, the bot waits
\* for the next tick, and in a tick that follows a failed one the refresh is
\* attempted again and may succeed.
C10_SyncFailureSkipsTick ==
    /\ tick.syncFailed
          => /\ pc = "wait"
             /\ invoked = << >>
             /\ last = NoInvocation
             /\ ~tick.saveCalled
             /\ ru = tick.ruAtStart
             /\ file = tick.fileAtStart
             /\ now < MaxTime => ENABLED Tick
    /\ (pc = "check" /\ tick.afterFailure) => (ENABLED SyncOk /\ ENABLED SyncFail)

\* a Sync failed in a tick after one that had fetched conversations of users
\* in the store
C10_Witness ==
    /\ tick.syncFailed
    /\ \E k \in 1..Len(inbox.Conversations) :
          \E j \in 1..Len(inbox.Conversations[k].Items) :
              /\ ~ru.isNil
              /\ inbox.Conversations[k].Items[j].UserID \in DOMAIN ru.Users

\* the latest request was a POST with this property of its body
PostedBody(P(_)) == req.method = "POST" /\ P(Body(req))

\* the bodies that are one JSON text but lack part of the expected nesting
NestingDefects ==
    {"noEntry", "entryNotList", "entryEmpty", "entry0NotObject",
     "noChanges", "changesNotList", "changesEmpty", "changes0NotObject",
     "noValue", "valueNotObject", "noMessages", "messagesNotList",
     "message0NotObject", "noFrom", "fromNotString"}

\* C14: a step that handles a GET whose hub.mode is subscribe and whose
\* hub.verify_token is the configured token answers 200 with hub.challenge as
\* the body; a step that handles any other GET answers 403; neither sends a
\* message nor changes the dedup store or its file.
C14_VerificationHandshake ==
    [][req'.method = "GET" =>
          /\ (req'.mode = "subscribe" /\ req'.token = verifyToken)
                => (resp'.status = 200 /\ resp'.body = req'.challenge)
          /\ ~(req'.mode = "subscribe" /\ req'.token = verifyToken)
                => resp'.status = 403
          /\ ~resp'.panicked
          /\ resp'.sends = << >>
          /\ outbox' = outbox
          /\ ru' = ru
          /\ file' = file]_vars

\* a verified GET echoed its challenge after a GET with the right mode and a
\* wrong token was refused
C14_Witness ==
    /\ served = 2
    /\ req.method = "GET" /\ req.mode = "subscribe" /\ req.token = verifyToken
    /\ req.challenge = "abc123"
    /\ resp.status = 200 /\ resp.body = "abc123"

\* the body decodes and carries a message with a sender
CarriesMessage(b) == ~Decode(b).err /\ req.defect = "none"

\* C15: after a POST whose body decodes and carries a message, sendReply was
\* called once and the response status is 200, whether sendReply returned an
\* error or not.
C15_SendFailureNotSurfaced ==
    PostedBody(CarriesMessage) => (Len(resp.sends) = 1 /\ resp.status = 200 /\ ~resp.panicked)

\* a POST carrying a message was answered after its sendReply failed
C15_Witness ==
    /\ PostedBody(CarriesMessage)
    /\ Len(resp.sends) = 1
    /\ ~resp.sends[1].ok

\* the body is one JSON text that lacks part of the expected nesting
LacksNesting(b) == ValidJSON(b) /\ req.defect \in NestingDefects

\* C16: after a POST whose body is valid JSON but lacks the expected nesting,
\* the handler has not panicked, the request was rejected with a client error
\* status, no send was attempted, and the server handles the next request.
C16_MissingNestingRejected ==
    PostedBody(LacksNesting)
        => /\ ~resp.panicked
           /\ resp.status \in 400..499
           /\ resp.sends = << >>
           /\ served < MaxReqs => ENABLED HandleWebhook

\* C17: a step that handles a POST whose body is not valid JSON answers 400,
\* attempts no send and leaves the dedup store and its file as they were.
C17_InvalidJSONRejected ==
    [][(req'.method = "POST" /\ ~ValidJSON(Body(req')))
          => /\ resp'.status = 400
             /\ resp'.sends = << >>
             /\ outbox' = outbox
             /\ ru' = ru
             /\ file' = file]_vars

\* C18: the text of every reply the webhook handler sends for a message is a
\* reply determineResponse returns for the case-folded text of that message
\* under the bot's configuration.
C18_WebhookUsesRuleEngine ==
    \A k \in 1..Len(resp.sends) :
        resp.sends[k].text \in determineResponse(config, ToLower(req.text))

\* C11: when the process has exited after the bot was constructed, the
\* deferred Cleanup has run, it exported the session and it called Save.
C11_CleanupBeforeExit ==
    pc = "exited" => (shutdown.ran /\ shutdown.exported /\ shutdown.saveCalled)

\* the goroutine panicked in a method of the store: in HasResponded, called
\* for a message that was found, or in the Save that ends the tick
PanickedInStore ==
    /\ pc \in {"panic", "exited"}
    /\ last.panicked => last.found

\* C12: loading a missing file gives an empty store and no error, loading a
\* malformed file fails, and in a process whose load failed at startup no call
\* of HasResponded, MarkResponded or Save ends the polling loop: its ticks end
\* with Save called.
C12_LoadFailureRecoverable ==
    /\ NewRespondedUsers(FileMissing) = [isNil |-> FALSE, Users |-> EmptyUsers]
    /\ NewRespondedUsers(FileMalformed).isNil
    /\ ru.isNil => ~PanickedInStore
    /\ (ru.isNil /\ tick.synced /\ TickOver) => tick.saveCalled

\* C13: a store loaded by NewRespondedUsers after a Save that returned nil
\* holds the users the saved map held, each with the instant it had, and
\* HasResponded reports every one of them.
C13_SaveLoadRoundTrip ==
    (pc = "loaded" /\ saved.ok)
        => /\ ~ru.isNil
           /\ DOMAIN ru.Users = DOMAIN saved.Users
           /\ \A userID \in DOMAIN saved.Users :
                 /\ ru.Users[userID].wall = saved.Users[userID].wall
                 /\ HasResponded(ru.Users, userID)

\* a store with a user marked by this process and a user read from a file was
\* saved and loaded again
C13_Witness ==
    /\ pc = "loaded"
    /\ saved.ok
    /\ \E a, b \in DOMAIN saved.Users :
          /\ saved.Users[a].mono
          /\ ~saved.Users[b].mono
          /\ saved.Users[a].wall # saved.Users[b].wall
          /\ HasResponded(ru.Users, a)

\* C19: an invocation of processConversation makes at most one send and at
\* most one call of MarkResponded, which changes at most one entry of the map.
C19_AtMostOneSendOneMark ==
    /\ last.sends <= 1
    /\ last.marks <= 1
    /\ last.delta <= 1
    /\ last.changed <=> last.delta > 0

\* an invocation sent a reply and re-stamped its user in a store of two users
C19_Witness ==
    /\ last.sends = 1
    /\ last.marks = 1
    /\ last.delta = 1
    /\ Cardinality(DOMAIN ru.Users) = 2

====
